---- MODULE Spec2Model ----
(***************************************************************************)
(* gym_envs (gym_wrapper/wrapper_win.py): a manager that owns n gym        *)
(* environments and steps / resets them with one FakeMultiThread per       *)
(* environment and per call.                                               *)
(*                                                                         *)
(* Slots are numbered 0..n-1 as in the source.  Python lists (threadpool,  *)
(* the returned batches, dones_index) are TLA+ sequences, so the element   *)
(* the source writes xs[i] is xs[i+1] here.                                *)
(***************************************************************************)
EXTENDS Integers, Sequences, FiniteSets, TLC

\* ------------------------------------------------------------------ bounds
n == 2              \* self.n, the number of environments
MaxT == 2           \* steps an environment takes within one episode

Slots == 0..(n - 1)
ActionSpace == {0, 1}

\* Python's None, and the argument tuple args=() of a reset task.
None == [none |-> TRUE]
NoArg == -1

VARIABLES
    envs,         \* envs[i]: steps instance i has taken in its current episode
    dones_index,  \* self.dones_index: [type, val]
    pc,           \* the caller: "idle", "start" (l.171/187/202), "join" (l.173/189/204)
    op,           \* the batched call in progress or last made
    actions,      \* the argument of the step call in progress or last made
    threadpool,   \* the local list of FakeMultiThread objects of the call
    joined,       \* how many threads of threadpool the join loop has passed
    ret,          \* what the last call handed to its caller
    envlog,       \* per instance, what the environment did during the call
    envs0,        \* envs when the call began
    dones0,       \* dones_index when the call began
    stepdones,    \* the done slots reported by the last call, if it was a step
                  \* that returned, or by the step before the partial_reset calls
    consec,       \* partial_reset calls completed since that step: 0, 1, 2, and
                  \* 3 for more than two or when no such step came before
    ooo,          \* some thread of the call ended before one created earlier
    stale,        \* some call began while a thread of an earlier call had not ended
    render_mode,  \* the render_mode argument of __init__: a str [type, chars]
                  \* or a list [type, items]
    render_index, \* self.render_index: [set, val]
    construct,    \* __init__ at l.77: "new" before it, then "ok" or "raise"
    exc,          \* the exception __init__ raised there
    closes,       \* closes[i]: how many times close was invoked on instance i
    close_calls,  \* how many close() calls the manager has completed
    proto,        \* the prototype environment handed to _initialize
    desc,         \* the attributes _initialize has assigned
    proto_closed, \* close was invoked on the prototype
    initialized   \* _initialize: "new" before it, then "ok" or the exception

manager == <<envs, dones_index, pc, op, actions, threadpool, joined, ret,
             envlog, envs0, dones0, stepdones, consec, ooo, stale>>

render == <<render_mode, render_index, construct, exc>>

closing == <<closes, close_calls>>

classify == <<proto, desc, proto_closed, initialized>>

lifecycle == <<render, closing, classify>>

vars == <<manager, lifecycle>>

\* ------------------------------------------------------------- strings
\* A Python str is the sequence of its characters.
Str_first == <<"f", "i", "r", "s", "t">>
Str_last == <<"l", "a", "s", "t">>
Str_all == <<"a", "l", "l">>
Str_random == <<"r", "a", "n", "d", "o", "m">>
Str_bogus == <<"b", "o", "g", "u", "s">>
Str_foo == <<"f", "o", "o">>

DigitChars == <<"0", "1", "2", "3", "4", "5", "6", "7", "8", "9">>

IsDigit(c) == \E v \in 1..Len(DigitChars) : DigitChars[v] = c

DigitVal(c) == (CHOOSE v \in 1..Len(DigitChars) : DigitChars[v] = c) - 1

\* str.split('_'): the pieces between the underscores.
RECURSIVE split_from(_, _, _)
split_from(s, i, piece) ==
    IF i > Len(s) THEN <<piece>>
    ELSE IF s[i] = "_" THEN <<piece>> \o split_from(s, i + 1, <<>>)
    ELSE split_from(s, i + 1, Append(piece, s[i]))

split(s) == split_from(s, 1, <<>>)

RECURSIVE digits_value(_, _, _)
digits_value(s, i, acc) ==
    IF i > Len(s) THEN acc ELSE digits_value(s, i + 1, 10 * acc + DigitVal(s[i]))

AllDigits(s) == s # <<>> /\ \A i \in 1..Len(s) : IsDigit(s[i])

\* int(s) for a str of digits with an optional minus sign; any other str of
\* the ones tried raises ValueError.
int(s) ==
    IF AllDigits(s) THEN [ok |-> TRUE, val |-> digits_value(s, 1, 0)]
    ELSE IF s # <<>> /\ s[1] = "-" /\ AllDigits(Tail(s))
         THEN [ok |-> TRUE, val |-> 0 - digits_value(Tail(s), 1, 0)]
    ELSE [ok |-> FALSE, val |-> 0]

\* ------------------------------------------------------- the environments
\* What instance i returns from reset().
EnvReset(i) == [env |-> i, t |-> 0]

\* What instance i, t steps into its episode, returns from step(a); whether
\* the episode ends there is the environment's choice d.
EnvStep(i, t, a, d) ==
    [obs    |-> [env |-> i, t |-> t + 1],
     reward |-> a,
     done   |-> d,
     info   |-> [env |-> i, action |-> a]]

NoLog ==
    [resets |-> 0, steps |-> 0, arg |-> NoArg, raised |-> FALSE, out |-> None]

\* ------------------------------------------------------- FakeMultiThread
\* __init__: the thread object, not yet started; self.result is not set.
FakeMultiThread(func, i, args) ==
    [func |-> func, env |-> i, args |-> args, st |-> "new",
     has |-> FALSE, result |-> None]

\* get_result: self.result, or None when reading it raises (the attribute was
\* never assigned because func raised in run).
get_result(th) == IF th.has THEN th.result ELSE None

\* A join that does not wait for the thread.
JoinReturnsEarly(th) == TRUE

\* threading.Thread.join(th) returns once th has terminated.
JoinReturns(th) == th.st = "finished"

\* ------------------------------------------------------------ numpy bits
RECURSIVE where_from(_, _)
where_from(done, i) ==
    IF i > Len(done) THEN <<>>
    ELSE (IF done[i] THEN <<i - 1>> ELSE <<>>) \o where_from(done, i + 1)

RECURSIVE where_down(_, _)
where_down(done, i) ==
    IF i < 1 THEN <<>>
    ELSE (IF done[i] THEN <<i - 1>> ELSE <<>>) \o where_down(done, i - 1)

\* The same indices, highest first.
np_where_descending(done) == where_down(done, Len(done))

\* np.where(done)[0]: the indices at which done is true, ascending.
np_where(done) == where_from(done, 1)

Range(s) == {s[j] : j \in 1..Len(s)}

\* ---------------------------------------------------------- _initialize
MaxSlots == 2       \* most slots of a Tuple action space tried

\* A gym space: Box(shape), Discrete(n), Tuple(slots), or some other kind.
Box(shape) == [kind |-> "Box", shape |-> shape, n |-> 0, slots |-> <<>>]

Discrete(k) == [kind |-> "Discrete", shape |-> <<>>, n |-> k, slots |-> <<>>]

Tuple(slots) == [kind |-> "Tuple", shape |-> <<>>, n |-> 0, slots |-> slots]

OtherSpace == [kind |-> "MultiBinary", shape |-> <<3>>, n |-> 3, slots |-> <<>>]

\* The prototypes tried.
SlotSpaces == {Discrete(2), Discrete(3), Box(<<1>>)}

ObsSpaces ==
    {Box(<<4>>), Box(<<2, 2>>), Box(<<2, 2, 3>>), Discrete(3), OtherSpace}

ActSpaces ==
    {Box(<<1>>), Box(<<2>>), Box(<<2, 2>>), Discrete(2), Discrete(3), OtherSpace}
        \cup {Tuple(s) : s \in UNION {[1..len -> SlotSpaces] : len \in 1..MaxSlots}}

Protos ==
    [observation_space : ObsSpaces, action_space : ActSpaces,
     reward_threshold : {"None", "195.0"}]

DefaultProto ==
    [observation_space |-> Box(<<4>>), action_space |-> Discrete(2),
     reward_threshold |-> "195.0"]

\* The manager's attributes before _initialize has assigned any.
NoDesc ==
    [s_dim |-> 0, obs_type |-> "", visual_sources |-> 0,
     visual_resolution |-> <<>>, action_type |-> "", is_continuous |-> FALSE,
     a_dim_or_list |-> <<>>, reward_threshold |-> ""]

\* l.82-96: the observation attributes.
ProcessObservation(d, ObsSpace) ==
    [d EXCEPT
        !.s_dim = IF ObsSpace.kind = "Box"
                  THEN (IF Len(ObsSpace.shape) = 1 THEN ObsSpace.shape[1] ELSE 0)
                  ELSE ObsSpace.n,
        !.obs_type = IF Len(ObsSpace.shape) = 3 THEN "visual" ELSE "vector",
        !.visual_sources = IF Len(ObsSpace.shape) = 3 THEN 1 ELSE 0,
        !.visual_resolution = IF Len(ObsSpace.shape) = 3 THEN ObsSpace.shape ELSE <<>>]

\* l.80: both spaces must be Box or Discrete.
AvailableTypes(env) ==
    /\ env.observation_space.kind \in {"Box", "Discrete"}
    /\ env.action_space.kind \in {"Box", "Discrete"}

AllDiscrete(slots) == \A j \in 1..Len(slots) : slots[j].kind = "Discrete"

\* _initialize, l.79-116: [status, desc, closed].  An assert that fails raises
\* AssertionError at once; env.close() is the last statement.
Classified(env) ==
    LET ActSpace == env.action_space
        d1 == ProcessObservation(NoDesc, env.observation_space)
        done(d) == [status |-> "ok",
                    desc |-> [d EXCEPT !.reward_threshold = env.reward_threshold],
                    closed |-> TRUE]
        failed(d) == [status |-> "AssertionError", desc |-> d, closed |-> FALSE]
    IN  IF ~AvailableTypes(env) THEN failed(NoDesc)
        ELSE IF ActSpace.kind = "Box"
        THEN IF Len(ActSpace.shape) # 1 THEN failed(d1)
             ELSE done([d1 EXCEPT !.action_type = "continuous",
                                  !.is_continuous = TRUE,
                                  !.a_dim_or_list = ActSpace.shape])
        ELSE IF ActSpace.kind = "Tuple"
        THEN IF ~AllDiscrete(ActSpace.slots) THEN failed(d1)
             ELSE done([d1 EXCEPT !.action_type = "Tuple(Discrete)",
                                  !.is_continuous = FALSE,
                                  !.a_dim_or_list =
                                      [j \in 1..Len(ActSpace.slots) |->
                                          ActSpace.slots[j].n]])
        ELSE done([d1 EXCEPT !.action_type = "discrete",
                             !.is_continuous = FALSE,
                             !.a_dim_or_list = <<ActSpace.n>>])

\* ----------------------------------------------------------------- Init
\* After __init__: the environments are made, dones_index is not assigned.
Init ==
    /\ envs = [i \in Slots |-> 0]
    /\ dones_index = [type |-> "unset", val |-> <<>>]
    /\ pc = "idle"
    /\ op = "none"
    /\ actions = [i \in Slots |-> 0]
    /\ threadpool = <<>>
    /\ joined = 0
    /\ ret = [kind |-> "none", exc |-> "", val |-> <<>>]
    /\ envlog = [i \in Slots |-> NoLog]
    /\ envs0 = envs
    /\ dones0 = dones_index
    /\ stepdones = <<>>
    /\ consec = 3
    /\ ooo = FALSE
    /\ stale = FALSE
    /\ render_mode = [type |-> "str", chars |-> Str_first]
    /\ render_index = [set |-> TRUE, val |-> <<0>>]
    /\ construct = "ok"
    /\ exc = ""
    /\ closes = [i \in Slots |-> 0]
    /\ close_calls = 0
    /\ proto = DefaultProto
    /\ desc = Classified(DefaultProto).desc
    /\ proto_closed = TRUE
    /\ initialized = "ok"

\* Some thread of pool has not terminated.
Unended(pool) == \E j \in 1..Len(pool) : pool[j].st # "finished"

\* The caller enters a batched call: the bookkeeping of the call begins.
Enter(o, acts, pool) ==
    /\ op' = o
    /\ actions' = acts
    /\ threadpool' = pool
    /\ joined' = 0
    /\ pc' = IF pool = <<>> THEN "join" ELSE "start"
    /\ envlog' = [i \in Slots |-> NoLog]
    /\ envs0' = envs
    /\ dones0' = dones_index
    /\ ret' = [kind |-> "none", exc |-> "", val |-> <<>>]
    /\ ooo' = FALSE
    /\ stale' = (stale \/ Unended(threadpool))
    /\ UNCHANGED envs

\* reset, l.166-170.
ResetPool == [j \in 1..n |-> FakeMultiThread("reset", j - 1, NoArg)]

CallReset ==
    /\ pc = "idle"
    /\ dones_index' = [type |-> "list", val |-> <<>>]
    /\ Enter("reset", [i \in Slots |-> 0], ResetPool)
    /\ stepdones' = <<>>
    /\ consec' = 3
    /\ UNCHANGED lifecycle

\* step, l.179-186 (action_type 'discrete': reshape(-1,) of a batch that is
\* already one action per slot).  Thread i gets args=(actions[i],).
StepArg(acts, i) == acts[i]

\* A step whose first thread resets its instance.
StepPoolResetsFirst(acts) ==
    [j \in 1..n |->
        IF j = 1 THEN FakeMultiThread("reset", 0, NoArg)
        ELSE FakeMultiThread("step", j - 1, StepArg(acts, j - 1))]

StepPool(acts) ==
    [j \in 1..n |-> FakeMultiThread("step", j - 1, StepArg(acts, j - 1))]

CallStep ==
    /\ pc = "idle"
    /\ \A i \in Slots : envs[i] < MaxT
    /\ \E acts \in [Slots -> ActionSpace] :
          Enter("step", acts, StepPool(acts))
    /\ stepdones' = <<>>
    /\ consec' = 3
    /\ UNCHANGED <<dones_index, lifecycle>>

\* Every done slot taken twice.
PartialResetTargetsTwice(d) == d.val \o d.val

\* partial_reset, l.198-201: one reset thread per element of dones_index.
PartialResetTargets(d) == d.val

PartialResetPool(d) ==
    [j \in 1..Len(PartialResetTargets(d)) |->
        FakeMultiThread("reset", PartialResetTargets(d)[j], NoArg)]

\* Iterating self.dones_index before any reset or step raises AttributeError.
CallPartialReset ==
    /\ pc = "idle"
    /\ IF dones_index.type = "unset"
       THEN /\ op' = "partial_reset"
            /\ ret' = [kind |-> "raise", exc |-> "AttributeError", val |-> <<>>]
            /\ threadpool' = <<>>
            /\ joined' = 0
            /\ envlog' = [i \in Slots |-> NoLog]
            /\ envs0' = envs
            /\ dones0' = dones_index
            /\ actions' = [i \in Slots |-> 0]
            /\ stale' = (stale \/ Unended(threadpool))
            /\ UNCHANGED <<pc, envs, ooo>>
       ELSE Enter("partial_reset", [i \in Slots |-> 0],
                  PartialResetPool(dones_index))
    /\ UNCHANGED <<dones_index, stepdones, consec, lifecycle>>

\* for th in threadpool: th.start()
Start ==
    /\ pc = "start"
    /\ \E j \in 1..Len(threadpool) :
          /\ threadpool[j].st = "new"
          /\ \A h \in 1..(j - 1) : threadpool[h].st # "new"
          /\ threadpool' = [threadpool EXCEPT ![j].st = "started"]
          /\ pc' = IF j = Len(threadpool) THEN "join" ELSE "start"
    /\ UNCHANGED <<envs, dones_index, op, actions, joined, ret, envlog,
                   envs0, dones0, stepdones, consec, ooo, stale, lifecycle>>

\* Thread j ends while a thread created before it has not ended.
Overtakes(pool, j) == \E h \in 1..(j - 1) : pool[h].st # "finished"

\* FakeMultiThread.run, func = envs[i].reset: the episode restarts.
RunReset ==
    \E j \in 1..Len(threadpool) :
        LET th == threadpool[j]
            i == th.env
            out == EnvReset(i)
        IN  /\ th.st = "started"
            /\ th.func = "reset"
            /\ envs' = [envs EXCEPT ![i] = 0]
            /\ envlog' = [envlog EXCEPT ![i] =
                 [resets |-> @.resets + 1, steps |-> @.steps,
                  arg |-> NoArg, raised |-> FALSE, out |-> out]]
            /\ threadpool' = [threadpool EXCEPT ![j] =
                 [@ EXCEPT !.st = "finished", !.has = TRUE, !.result = out]]
            /\ ooo' = (ooo \/ Overtakes(threadpool, j))
            /\ UNCHANGED <<dones_index, pc, op, actions, joined, ret,
                           envs0, dones0, stepdones, consec, stale, lifecycle>>

\* FakeMultiThread.run, func = envs[i].step, args = (actions[i],).
RunStep ==
    \E j \in 1..Len(threadpool), d \in BOOLEAN :
        LET th == threadpool[j]
            i == th.env
            out == EnvStep(i, envs[i], th.args, d)
        IN  /\ th.st = "started"
            /\ th.func = "step"
            /\ envs[i] < MaxT
            /\ envs' = [envs EXCEPT ![i] = @ + 1]
            /\ envlog' = [envlog EXCEPT ![i] =
                 [resets |-> @.resets, steps |-> @.steps + 1,
                  arg |-> th.args, raised |-> FALSE, out |-> out]]
            /\ threadpool' = [threadpool EXCEPT ![j] =
                 [@ EXCEPT !.st = "finished", !.has = TRUE, !.result = out]]
            /\ ooo' = (ooo \/ Overtakes(threadpool, j))
            /\ UNCHANGED <<dones_index, pc, op, actions, joined, ret,
                           envs0, dones0, stepdones, consec, stale, lifecycle>>

\* FakeMultiThread.run when func raises: the exception ends the thread and
\* self.result is never assigned.  The instance keeps its episode state.
RunRaise ==
    \E j \in 1..Len(threadpool) :
        LET th == threadpool[j]
            i == th.env
        IN  /\ th.st = "started"
            /\ envlog' = [envlog EXCEPT ![i] =
                 [resets |-> @.resets + (IF th.func = "reset" THEN 1 ELSE 0),
                  steps |-> @.steps + (IF th.func = "step" THEN 1 ELSE 0),
                  arg |-> th.args, raised |-> TRUE, out |-> None]]
            /\ threadpool' = [threadpool EXCEPT ![j].st = "finished"]
            /\ ooo' = (ooo \/ Overtakes(threadpool, j))
            /\ UNCHANGED <<envs, dones_index, pc, op, actions, joined, ret,
                           envs0, dones0, stepdones, consec, stale, lifecycle>>

\* for th in threadpool: threading.Thread.join(th)
Join ==
    /\ pc = "join"
    /\ joined < Len(threadpool)
    /\ JoinReturns(threadpool[joined + 1])
    /\ joined' = joined + 1
    /\ UNCHANGED <<envs, dones_index, pc, op, actions, threadpool, ret,
                   envlog, envs0, dones0, stepdones, consec, ooo, stale, lifecycle>>

\* The results read from the last thread to the first.
ResultsReversed(pool, k) == [j \in 1..k |-> get_result(pool[k + 1 - j])]

\* [threadpool[i].get_result() for i in range(k)]
Results(pool, k) == [j \in 1..k |-> get_result(pool[j])]

Channel(results, f) == [j \in 1..Len(results) |-> results[j][f]]

\* reset, l.175-176: np.asarray of the results, None included (an array of
\* dtype object).
ReturnReset ==
    /\ pc = "join" /\ joined = Len(threadpool) /\ op = "reset"
    /\ ret' = [kind |-> "return", exc |-> "", val |-> Results(threadpool, n)]
    /\ pc' = "idle"
    /\ UNCHANGED <<envs, dones_index, op, actions, threadpool, joined,
                   envlog, envs0, dones0, stepdones, consec, ooo, stale, lifecycle>>

\* step, l.191-195: zip(*results) raises TypeError when a result is None.
ReturnStep ==
    /\ pc = "join" /\ joined = Len(threadpool) /\ op = "step"
    /\ LET results == Results(threadpool, n)
       IN  IF \E j \in 1..n : results[j] = None
           THEN /\ ret' = [kind |-> "raise", exc |-> "TypeError", val |-> <<>>]
                /\ UNCHANGED <<dones_index, stepdones, consec>>
           ELSE /\ ret' = [kind |-> "return", exc |-> "",
                           val |-> [obs    |-> Channel(results, "obs"),
                                    reward |-> Channel(results, "reward"),
                                    done   |-> Channel(results, "done"),
                                    info   |-> Channel(results, "info")]]
                /\ dones_index' = [type |-> "ndarray",
                                   val |-> np_where(Channel(results, "done"))]
                /\ stepdones' = where_from(ret'.val.done, 1)  \* read off the batch
                /\ consec' = 0
    /\ pc' = "idle"
    /\ UNCHANGED <<envs, op, actions, threadpool, joined, envlog, envs0,
                   dones0, ooo, stale, lifecycle>>

\* A partial_reset that empties dones_index once it has used it.
DonesCleared(d) == [type |-> "ndarray", val |-> <<>>]

\* partial_reset assigns nothing to self.dones_index.
DonesAfterPartialReset(d) == d

\* partial_reset, l.206-207: a list has no attribute shape.
ReturnPartialReset ==
    /\ pc = "join" /\ joined = Len(threadpool) /\ op = "partial_reset"
    /\ IF dones_index.type = "list"
       THEN ret' = [kind |-> "raise", exc |-> "AttributeError", val |-> <<>>]
       ELSE ret' = [kind |-> "return", exc |-> "",
                    val |-> Results(threadpool, Len(dones_index.val))]
    /\ dones_index' = DonesAfterPartialReset(dones_index)
    /\ consec' = IF consec < 3 THEN consec + 1 ELSE 3
    /\ pc' = "idle"
    /\ UNCHANGED <<envs, op, actions, threadpool, joined, envlog, envs0,
                   dones0, stepdones, ooo, stale, lifecycle>>

Next ==
    \/ CallReset
    \/ CallStep
    \/ CallPartialReset
    \/ Start
    \/ RunReset
    \/ RunStep
    \/ RunRaise
    \/ Join
    \/ ReturnReset
    \/ ReturnStep
    \/ ReturnPartialReset

Spec == Init /\ [][Next]_vars

\* --------------------------------------------------- _get_render_index
MaxList == 2        \* longest explicit render list tried

\* The render_mode arguments tried: the three words, strings with no, one
\* and two underscores, and lists of integers.
NumberStrs ==
    {<<DigitChars[v + 1]>> : v \in 0..(n + 1)}
        \cup {<<>>, <<"x">>, <<"-", "1">>, <<"0", "1">>, <<"1", "0">>}

RenderStrs ==
    {Str_first, Str_last, Str_all, Str_bogus, Str_random}
        \cup {h \o <<"_">> \o t : h \in {Str_random, Str_foo, Str_last, <<>>}, t \in NumberStrs}
        \cup {Str_random \o <<"_">> \o t \o <<"_">> \o t : t \in {<<"1">>, <<"x">>}}

RenderLists == UNION {[1..len -> (0 - 1)..n] : len \in 0..MaxList}

RenderModes ==
    {[type |-> "str", chars |-> v] : v \in RenderStrs}
        \cup {[type |-> "list", items |-> v] : v \in RenderLists}

\* k slots drawn with replacement.
random_choices(k) == [1..k -> Slots]

\* random.sample(range(n), k): every sequence of k distinct slots.
random_sample(k) ==
    {s \in [1..k -> Slots] : \A a, b \in 1..k : a # b => s[a] # s[b]}

Raise(e) ==
    /\ construct' = "raise"
    /\ exc' = e
    /\ UNCHANGED render_index

Assign(v) ==
    /\ construct' = "ok"
    /\ render_index' = [set |-> TRUE, val |-> v]
    /\ UNCHANGED exc

\* __init__ before l.77: render_index is not assigned yet.
InitRender ==
    /\ envs = [i \in Slots |-> 0]
    /\ dones_index = [type |-> "unset", val |-> <<>>]
    /\ pc = "idle"
    /\ op = "none"
    /\ actions = [i \in Slots |-> 0]
    /\ threadpool = <<>>
    /\ joined = 0
    /\ ret = [kind |-> "none", exc |-> "", val |-> <<>>]
    /\ envlog = [i \in Slots |-> NoLog]
    /\ envs0 = envs
    /\ dones0 = dones_index
    /\ stepdones = <<>>
    /\ consec = 3
    /\ ooo = FALSE
    /\ stale = FALSE
    /\ render_mode \in RenderModes
    /\ render_index = [set |-> FALSE, val |-> <<>>]
    /\ construct = "new"
    /\ exc = ""
    /\ closes = [i \in Slots |-> 0]
    /\ close_calls = 0
    /\ proto = DefaultProto
    /\ desc = Classified(DefaultProto).desc
    /\ proto_closed = TRUE
    /\ initialized = "ok"

\* l.127-131: min(index) names a variable that does not exist.
get_render_index_list ==
    /\ construct = "new"
    /\ render_mode.type = "list"
    /\ Raise("NameError")
    /\ UNCHANGED <<manager, render_mode, closing, classify>>

\* The words resolved with "all" counted from 1.
render_index_from_one(word) ==
    IF word = Str_first THEN <<0>>
    ELSE IF word = Str_last THEN <<0 - 1>>
    ELSE [j \in 1..n |-> j]

\* l.133-138: [0], [-1], [i for i in range(self.n)].
render_index_of(word) ==
    IF word = Str_first THEN <<0>>
    ELSE IF word = Str_last THEN <<0 - 1>>
    ELSE [j \in 1..n |-> j - 1]

\* render, l.151: self.envs[i] for i in self.render_index; a negative index
\* counts from the end of the list.
RenderedSlots(index) ==
    [j \in 1..Len(index) |-> IF index[j] < 0 THEN index[j] + n ELSE index[j]]

\* l.132-138.
get_render_index_word ==
    /\ construct = "new"
    /\ render_mode.type = "str"
    /\ render_mode.chars \in {Str_first, Str_last, Str_all}
    /\ Assign(render_index_of(render_mode.chars))
    /\ UNCHANGED <<manager, render_mode, closing, classify>>

\* Neither branch of l.141 assigns or raises: __init__ goes on without a
\* render_index.
FallThrough ==
    /\ construct' = "ok"
    /\ UNCHANGED <<render_index, exc>>

\* l.139-143: a, b = render_mode.split('_') raises ValueError unless there
\* are two pieces; int(b) is evaluated only when a == 'random'.
get_render_index_other ==
    /\ construct = "new"
    /\ render_mode.type = "str"
    /\ render_mode.chars \notin {Str_first, Str_last, Str_all}
    /\ LET pieces == split(render_mode.chars)
       IN  IF Len(pieces) # 2 THEN Raise("ValueError")
           ELSE LET a == pieces[1]
                    b == pieces[2]
                IN  IF a # Str_random THEN FallThrough
                    ELSE IF ~int(b).ok THEN Raise("ValueError")
                    ELSE IF 0 < int(b).val /\ int(b).val <= n
                    THEN \E s \in random_sample(int(b).val) : Assign(s)
                    ELSE FallThrough
    /\ UNCHANGED <<manager, render_mode, closing, classify>>

NextRender ==
    \/ get_render_index_list
    \/ get_render_index_word
    \/ get_render_index_other

SpecRender == InitRender /\ [][NextRender]_vars

\* ----------------------------------------------------------------- close
MaxClose == 2       \* close() calls tried on one manager

\* close, l.153-157: env.close() on every instance, whatever was closed
\* before; each env.close() returns.
close ==
    /\ construct = "ok"
    /\ close_calls < MaxClose
    /\ closes' = [i \in Slots |-> closes[i] + 1]
    /\ close_calls' = close_calls + 1
    /\ UNCHANGED <<manager, render, classify>>

NextLife ==
    \/ get_render_index_list
    \/ get_render_index_word
    \/ get_render_index_other
    \/ close

\* __init__ from l.77 on, then close() calls.
SpecLife == InitRender /\ [][NextLife]_vars

\* ------------------------------------------------------ classification
\* __init__ at l.69: _initialize is about to run on the prototype.
InitClassify ==
    /\ envs = [i \in Slots |-> 0]
    /\ dones_index = [type |-> "unset", val |-> <<>>]
    /\ pc = "idle"
    /\ op = "none"
    /\ actions = [i \in Slots |-> 0]
    /\ threadpool = <<>>
    /\ joined = 0
    /\ ret = [kind |-> "none", exc |-> "", val |-> <<>>]
    /\ envlog = [i \in Slots |-> NoLog]
    /\ envs0 = envs
    /\ dones0 = dones_index
    /\ stepdones = <<>>
    /\ consec = 3
    /\ ooo = FALSE
    /\ stale = FALSE
    /\ render_mode = [type |-> "str", chars |-> Str_first]
    /\ render_index = [set |-> FALSE, val |-> <<>>]
    /\ construct = "new"
    /\ exc = ""
    /\ closes = [i \in Slots |-> 0]
    /\ close_calls = 0
    /\ proto \in Protos
    /\ desc = NoDesc
    /\ proto_closed = FALSE
    /\ initialized = "new"

\* _initialize(env), l.79-116.
initialize ==
    /\ initialized = "new"
    /\ initialized' = Classified(proto).status
    /\ desc' = Classified(proto).desc
    /\ proto_closed' = Classified(proto).closed
    /\ UNCHANGED <<manager, render, closing, proto>>

NextClassify == initialize

SpecClassify == InitClassify /\ [][NextClassify]_vars

\* ------------------------------------------------------------- fairness
\* Every started thread gets to run and its environment operation ends; the
\* caller gets to run.
FairSpec ==
    /\ Spec
    /\ WF_vars(Start)
    /\ WF_vars(RunReset \/ RunStep \/ RunRaise)
    /\ WF_vars(Join)
    /\ WF_vars(ReturnReset \/ ReturnStep \/ ReturnPartialReset)


\* ------------------------------------------------------------ properties
\* The call o has ended (it returned or raised) and no other has begun.
Completed(o) == pc = "idle" /\ op = o

Returned(o) == Completed(o) /\ ret.kind = "return"

Ascending(s) == \A a, b \in 1..Len(s) : a < b => s[a] < s[b]

\* C1: whatever the interleaving and completion order of the worker threads,
\* element i of each of the four batches step returns (observation, reward,
\* done, info) is what instance i's step produced, and that step was applied
\* to actions[i].
C1_StepResultsBySlot ==
    Returned("step") =>
        /\ Len(ret.val.obs) = n /\ Len(ret.val.reward) = n
        /\ Len(ret.val.done) = n /\ Len(ret.val.info) = n
        /\ \A i \in Slots :
              /\ envlog[i].arg = actions[i]
              /\ ~envlog[i].raised
              /\ ret.val.obs[i + 1] = envlog[i].out.obs
              /\ ret.val.reward[i + 1] = envlog[i].out.reward
              /\ ret.val.done[i + 1] = envlog[i].out.done
              /\ ret.val.info[i + 1] = envlog[i].out.info

\* A step returned although its threads ended out of slot order and the slots
\* were given different actions.
C1_Witness ==
    /\ Returned("step")
    /\ ooo
    /\ \E i, h \in Slots : actions[i] # actions[h]

\* C2: after a step has returned, dones_index holds exactly the slots whose
\* done flag in that step's result is true, in ascending order; a slot of an
\* earlier step that is not done now is not kept.
C2_DonesIndexRecomputed ==
    Returned("step") =>
        /\ dones_index.type = "ndarray"
        /\ \A i \in Slots :
              (i \in Range(dones_index.val)) <=> ret.val.done[i + 1]
        /\ Ascending(dones_index.val)

\* A step returned with some slot done, and a slot that was in dones_index
\* before the call is not done in it.
C2_Witness ==
    /\ Returned("step")
    /\ dones_index.val # <<>>
    /\ \E i \in Range(dones0.val) : ~ret.val.done[i + 1]

\* C3: partial_reset invokes reset on exactly the instances in dones_index,
\* returns one observation per such slot in ascending slot order, and leaves
\* the episode state of every other instance unchanged.
C3_PartialResetExactlyDone ==
    (Completed("partial_reset") /\ dones0.type # "unset") =>
        /\ \A i \in Slots :
              /\ envlog[i].resets = (IF i \in Range(dones0.val) THEN 1 ELSE 0)
              /\ envlog[i].steps = 0
        /\ \A i \in Slots \ Range(dones0.val) : envs[i] = envs0[i]
        /\ Ascending(dones0.val)
        /\ ret.kind = "return"
        /\ Len(ret.val) = Len(dones0.val)
        /\ \A j \in 1..Len(dones0.val) : ret.val[j] = EnvReset(dones0.val[j])

\* C4: whenever dones_index is empty (right after reset, or after a step in
\* which no slot was done), partial_reset returns an empty batch without
\* raising and resets no instance.
C4_EmptyDonesGivesEmptyBatch ==
    (Completed("partial_reset") /\ dones0.type # "unset" /\ dones0.val = <<>>) =>
        /\ ret.kind = "return"
        /\ ret.val = <<>>
        /\ \A i \in Slots : envlog[i].resets = 0

\* C5, as claimed: after a step in which some slot was done, the second of two
\* partial_reset calls with no step between them resets no instance and
\* returns an empty batch.
C5_SecondPartialResetNoOp ==
    (Completed("partial_reset") /\ consec = 2 /\ stepdones # <<>>) =>
        /\ \A i \in Slots : envlog[i].resets = 0
        /\ ret.kind = "return"
        /\ ret.val = <<>>

\* C5, amended: the second partial_reset invokes reset once more on exactly
\* the slots that step reported done, returns one entry per such slot, and
\* dones_index still holds those slots.
C5_SecondPartialResetRepeats ==
    (Completed("partial_reset") /\ consec = 2 /\ stepdones # <<>>) =>
        /\ \A i \in Slots :
              envlog[i].resets = (IF i \in Range(stepdones) THEN 1 ELSE 0)
        /\ ret.kind = "return"
        /\ Len(ret.val) = Len(stepdones)
        /\ dones_index.val = stepdones

\* The second partial_reset after a step that reported a done slot has ended.
C5_Witness ==
    /\ Completed("partial_reset")
    /\ consec = 2
    /\ stepdones # <<>>
    /\ \E i \in Slots : envlog[i].resets = 1

\* C6: partial_reset leaves dones_index as it was when the call began, at
\* every point of the call and after it.
C6_PartialResetKeepsDones ==
    op = "partial_reset" => dones_index = dones0

\* A partial_reset that reset some instance has returned.
C6_Witness ==
    /\ Returned("partial_reset")
    /\ dones0.val # <<>>
    /\ \A i \in Range(dones0.val) : envlog[i].resets = 1

\* C7: when the environment operation of some task of a step, reset or
\* partial_reset call raises, the call fails; it never returns a batch.
C7_TaskFailureFailsCall ==
    (pc = "idle" /\ \E i \in Slots : envlog[i].raised) => ret.kind = "raise"

\* C8: whenever no batched call is in progress every thread the last call
\* made has ended, so the batch is built only after all of them have ended.
C8_ThreadsJoinedBeforeCallEnds ==
    pc = "idle" => \A j \in 1..Len(threadpool) : threadpool[j].st = "finished"

\* A call with one thread per instance has ended, and its threads ended out
\* of slot order.
C8_Witness ==
    /\ pc = "idle"
    /\ Len(threadpool) = n
    /\ ooo

\* C9: reset invokes reset exactly once on each instance, returns n
\* observations, element i produced by instance i, and leaves dones_index
\* empty.
C9_ResetAllInstances ==
    Completed("reset") =>
        /\ \A i \in Slots : envlog[i].resets = 1 /\ envlog[i].steps = 0
        /\ dones_index.type # "unset" /\ dones_index.val = <<>>
        /\ ret.kind = "return"
        /\ Len(ret.val) = n
        /\ \A i \in Slots : ret.val[i + 1] = EnvReset(i)

\* A str that names a render mode: "first", "last", "all", or "random_K" with
\* 0 < K <= n.
ValidRenderStr(s) ==
    \/ s \in {Str_first, Str_last, Str_all}
    \/ \E t \in NumberStrs :
          /\ s = Str_random \o <<"_">> \o t
          /\ int(t).ok /\ 0 < int(t).val /\ int(t).val <= n

InRange(items) == \A j \in 1..Len(items) : 0 <= items[j] /\ items[j] < n

\* C11: with an explicit list of integers as render_mode, the result is the
\* list as given when every index is within [0, n), and construction fails
\* when some index is outside it.
C11_ExplicitListResolved ==
    (construct # "new" /\ render_mode.type = "list") =>
        IF InRange(render_mode.items)
        THEN /\ construct = "ok"
             /\ render_index.set
             /\ render_index.val = render_mode.items
        ELSE construct = "raise"

IsWord(mode) ==
    mode.type = "str" /\ mode.chars \in {Str_first, Str_last, Str_all}

\* C12, as claimed: "first" gives [0], "last" gives [n - 1] and "all" gives
\* [0, ..., n - 1].
C12_WordsAsClaimed ==
    (construct # "new" /\ IsWord(render_mode)) =>
        /\ construct = "ok"
        /\ render_index.set
        /\ render_mode.chars = Str_first => render_index.val = <<0>>
        /\ render_mode.chars = Str_last => render_index.val = <<n - 1>>
        /\ render_mode.chars = Str_all =>
              render_index.val = [j \in 1..n |-> j - 1]

\* C12, amended: "first" gives [0], "all" gives [0, ..., n - 1], and "last"
\* gives [-1], the index with which render reaches instance n - 1.
C12_WordsResolved ==
    (construct # "new" /\ IsWord(render_mode)) =>
        /\ construct = "ok"
        /\ render_index.set
        /\ render_mode.chars = Str_first => render_index.val = <<0>>
        /\ render_mode.chars = Str_last =>
              /\ render_index.val = <<0 - 1>>
              /\ RenderedSlots(render_index.val) = <<n - 1>>
        /\ render_mode.chars = Str_all =>
              /\ render_index.val = [j \in 1..n |-> j - 1]
              /\ RenderedSlots(render_index.val) = render_index.val

\* "last" has been resolved on a manager of n instances.
C12_Witness ==
    /\ construct = "ok"
    /\ render_mode.type = "str"
    /\ render_mode.chars = Str_last
    /\ render_index.set
    /\ RenderedSlots(render_index.val) = <<n - 1>>

\* The str "random_K" for one decimal digit K.
RandomStr(K) == Str_random \o <<"_", DigitChars[K + 1]>>

\* C13: for 0 < K <= n every outcome of resolving "random_K" is a list of
\* exactly K pairwise distinct indices, each within [0, n).
C13_RandomKDistinct ==
    \A K \in 1..n :
        (construct # "new" /\ render_mode.type = "str"
            /\ render_mode.chars = RandomStr(K)) =>
                /\ construct = "ok"
                /\ render_index.set
                /\ Len(render_index.val) = K
                /\ \A a \in 1..K : render_index.val[a] \in Slots
                /\ \A a, b \in 1..K :
                      a # b => render_index.val[a] # render_index.val[b]

\* "random_n" has been resolved to a list that is not in slot order.
C13_Witness ==
    /\ construct = "ok"
    /\ render_mode.type = "str"
    /\ render_mode.chars = RandomStr(n)
    /\ render_index.set
    /\ ~Ascending(render_index.val)

\* C14: a second close() does not invoke close again on the instances the
\* first call closed.
C14_CloseIdempotent ==
    close_calls >= 2 => \A i \in Slots : closes[i] <= 1

\* C15: when _initialize has ended, by returning or by raising, close has been
\* invoked on the prototype.
C15_PrototypeAlwaysClosed ==
    initialized # "new" => proto_closed

\* C16: a prototype whose action space is a Tuple (and whose observation
\* space is supported) is classified 'Tuple(Discrete)' with the per-slot
\* counts in order when every slot is Discrete, and classification fails when
\* some slot is not.
C16_TupleActionClassified ==
    (initialized # "new" /\ proto.action_space.kind = "Tuple"
        /\ proto.observation_space.kind \in {"Box", "Discrete"}) =>
            IF AllDiscrete(proto.action_space.slots)
            THEN /\ initialized = "ok"
                 /\ desc.action_type = "Tuple(Discrete)"
                 /\ desc.a_dim_or_list =
                        [j \in 1..Len(proto.action_space.slots) |->
                            proto.action_space.slots[j].n]
            ELSE initialized # "ok"

\* The threads of the call that are running on instance i.
RunningOn(i) ==
    {j \in 1..Len(threadpool) :
        threadpool[j].env = i /\ threadpool[j].st = "started"}

\* C17: at every moment at most one thread is running on each instance: a
\* call makes at most one thread per slot, and no call begins while a thread
\* of an earlier call has not ended.
C17_OneThreadPerInstance ==
    /\ ~stale
    /\ \A i \in Slots : Cardinality(RunningOn(i)) <= 1
    /\ \A j, h \in 1..Len(threadpool) :
          j # h => threadpool[j].env # threadpool[h].env

\* A partial_reset, made after an earlier step, has a thread running on
\* every instance at once.
C17_Witness ==
    /\ op = "partial_reset"
    /\ \A i \in Slots : Cardinality(RunningOn(i)) = 1

\* C18: under fair scheduling, with environment operations that end, every
\* call in progress eventually ends; and a call ends only when every thread
\* it made has ended, so a thread that never ends keeps it from returning.
C18_CallsReturn ==
    /\ (pc # "idle") ~> (pc = "idle")
    /\ [][(pc # "idle" /\ pc' = "idle") => ~Unended(threadpool)]_vars

\* A partial_reset with a thread for every instance has returned.
C18_Witness ==
    /\ Returned("partial_reset")
    /\ Len(threadpool) = n
    /\ \A j \in 1..n : threadpool[j].st = "finished"

\* C19: a step call invokes step exactly once and reset never on each of the
\* n instances, also on an instance that is in dones_index and has not been
\* reset since; no episode is restarted by it.
C19_StepStepsEveryInstance ==
    op = "step" =>
        /\ \A i \in Slots :
              /\ envlog[i].resets = 0
              /\ envlog[i].steps <= 1
              /\ envs[i] >= envs0[i]
        /\ (pc \in {"join", "idle"} /\ joined = Len(threadpool)) =>
              \A i \in Slots : envlog[i].steps = 1

\* A step has ended that stepped an instance which was in dones_index and had
\* not been reset since it was done.
C19_Witness ==
    /\ Completed("step")
    /\ \E i \in Range(dones0.val) :
          /\ envs0[i] > 0
          /\ envlog[i].steps = 1
          /\ envs[i] = envs0[i] + 1

====
